---- MODULE Spec2Model ----
(***************************************************************************)
(* A model of privacy_protector: RegexDetector (detectors.py),             *)
(* FakeDataGenerator (generators.py) and PrivacyProtector (protector.py).  *)
(* Strings are sequences of one-character strings; offsets are 0-based and *)
(* spans half-open, as in Python, so text[s:e] is SubSeq(text, s+1, e).    *)
(***************************************************************************)
EXTENDS Integers, Sequences, FiniteSets, TLC

VARIABLES
    config_enabled,   \* ProtectorConfig.enabled_types / the enabled_types argument
    enabled_types,    \* RegexDetector.enabled_types
    compiled,         \* RegexDetector._compiled_patterns, in dict insertion order
    llm_guard,        \* PrivacyProtector.llm_guard is not None
    consistent,       \* FakeDataGenerator.consistent
    cache,            \* FakeDataGenerator._cache
    rng,              \* the state of FakeDataGenerator.faker's random source
    pc,               \* position of the call in progress ("idle" between calls)
    op,               \* the public operation last called
    text,             \* its text argument
    matches,          \* local variable matches of anonymize_with_report / _detect_all
    result_text,      \* local variable result_text
    replacements,     \* local variable replacements
    idx,              \* number of matches the replacement loop has processed
    guard_out,        \* what llm_guard.detect returned in this call
    ret,              \* what the last call returned or raised
    cache0,           \* history: the cache when the call in progress was entered
    first_ret,        \* history: per original, what generate first returned since the last clear
    last_gen,         \* history: the last generate call and its result
    local,            \* history: what regex_detector.detect returned in this call
    merged,           \* history: what _detect_all returned in this call
    ncalls,           \* history: number of PrivacyProtector calls made
    ngens             \* history: number of direct generate calls made

vars == <<config_enabled, enabled_types, compiled, llm_guard, consistent, cache, rng,
          pc, op, text, matches, result_text, replacements, idx, guard_out, ret,
          cache0, first_ret, last_gen, local, merged, ncalls, ngens>>

\* ---------------------------------------------------------------- bounds
MaxLen == 4        \* longest text handed to RegexDetector.detect
MaxText == 2       \* longest text handed to PrivacyProtector
MaxCustom == 2     \* custom rules added
MaxGuard == 2      \* matches a backend returns
MaxCalls == 1      \* PrivacyProtector calls in one run
MaxGens == 2       \* direct FakeDataGenerator.generate calls in one run

Alphabet == {"1", "a", "-"}

RECURSIVE Strings(_)
Strings(n) == IF n = 0 THEN {<<>>}
              ELSE LET S == Strings(n - 1)
                   IN  S \cup {Append(s, c) : s \in {t \in S : Len(t) = n - 1}, c \in Alphabet}

Min(a, b) == IF a < b THEN a ELSE b

\* Python's text[s:e] for 0 <= s, with e clamped to the length
Slice(t, s, e) == IF s >= Min(e, Len(t)) THEN <<>> ELSE SubSeq(t, s + 1, Min(e, Len(t)))

\* ---------------------------------------------------------------- re
\* A compiled pattern is a sequence of atoms: a word boundary \b, or a
\* greedy character class with a repetition range, [cls]{lo,hi}.
WordB == [kind |-> "b", cls |-> {}, lo |-> 0, hi |-> 0]
Cls(cls, lo, hi) == [kind |-> "c", cls |-> cls, lo |-> lo, hi |-> hi]
Digit == {"1"}
Alpha == {"a"}
Sep == {"-"}

IsWord(c) == c \in Digit \cup Alpha

AtBoundary(t, pos) ==
    LET before == pos > 0 /\ IsWord(t[pos])
        after == pos < Len(t) /\ IsWord(t[pos + 1])
    IN  before # after

RECURSIVE Run(_, _, _, _)
Run(cls, t, pos, hi) ==
    IF hi = 0 \/ pos >= Len(t) \/ t[pos + 1] \notin cls THEN 0
    ELSE 1 + Run(cls, t, pos + 1, hi - 1)

\* The end of the first match of atoms k.. at pos in backtracking order, or -1
RECURSIVE MatchAtoms(_, _, _, _)
RECURSIVE TryCount(_, _, _, _, _)
MatchAtoms(p, k, t, pos) ==
    IF k > Len(p) THEN pos
    ELSE IF p[k].kind = "b"
         THEN IF AtBoundary(t, pos) THEN MatchAtoms(p, k + 1, t, pos) ELSE -1
         ELSE TryCount(p, k, t, pos, Run(p[k].cls, t, pos, p[k].hi))
TryCount(p, k, t, pos, n) ==
    IF n < p[k].lo THEN -1
    ELSE LET r == MatchAtoms(p, k + 1, t, pos + n)
         IN  IF r # -1 THEN r ELSE TryCount(p, k, t, pos, n - 1)

\* Pattern.finditer: leftmost matches in ascending order; the search resumes at
\* the end of the last match, and an empty match is not taken again where an
\* empty match was just taken.
RECURSIVE Scan(_, _, _, _)
Scan(p, t, pos, must_advance) ==
    IF pos > Len(t) THEN <<>>
    ELSE LET e == MatchAtoms(p, 1, t, pos)
         IN  IF e # -1 /\ ~(must_advance /\ e = pos)
             THEN <<[start |-> pos, end |-> e]>> \o Scan(p, t, e, e = pos)
             ELSE Scan(p, t, pos + 1, FALSE)

finditer(p, t) == Scan(p, t, 0, FALSE)

\* ---------------------------------------------------------------- PIIType, PATTERNS
EMAIL == "email"
SSN == "ssn"
CREDIT_CARD == "credit_card"
BANK_ACCOUNT == "bank_account"
NAME == "name"
CUSTOM == "custom"

\* The table keeps the source's category order, rule order and rule shapes
\* (\b-anchored digit groups with optional separators), with the repetition
\* counts scaled down to the bounded texts.
PatternTypes == <<SSN, CREDIT_CARD, BANK_ACCOUNT>>

PATTERNS(ty) ==
    CASE ty = SSN ->
            << [pat |-> <<WordB, Cls(Digit, 1, 1), Cls(Sep, 0, 1), Cls(Digit, 1, 1), WordB>>,
                conf |-> 95] >>
      [] ty = CREDIT_CARD ->
            << [pat |-> <<WordB, Cls(Digit, 1, 1), Cls(Sep, 0, 1), Cls(Digit, 2, 2), WordB>>,
                conf |-> 98],
               [pat |-> <<WordB, Cls(Digit, 2, 2), Cls(Sep, 0, 1), Cls(Digit, 2, 2), WordB>>,
                conf |-> 85] >>
      [] ty = BANK_ACCOUNT ->
            << [pat |-> <<WordB, Cls(Alpha, 1, 1), Cls(Digit, 1, 1),
                          Cls(Alpha \cup Digit, 0, 2), WordB>>,
                conf |-> 95],
               [pat |-> <<WordB, Cls(Digit, 2, 4), WordB>>, conf |-> 50] >>

InPatterns(ty) == \E i \in 1..Len(PatternTypes) : PatternTypes[i] = ty

\* ---------------------------------------------------------------- RegexDetector
NoneArg == [none |-> TRUE, list |-> <<>>]
ListArg(l) == [none |-> FALSE, list |-> l]

\* enabled_types or list(self.PATTERNS.keys())
EnabledOrAll(arg) == IF arg.none \/ arg.list = <<>> THEN PatternTypes ELSE arg.list

HasType(c, ty) == \E i \in 1..Len(c) : c[i].type = ty

\* dict assignment c[ty] = rules: a present key keeps its place
DictSet(c, ty, rules) ==
    IF HasType(c, ty)
    THEN [i \in 1..Len(c) |-> IF c[i].type = ty THEN [type |-> ty, rules |-> rules] ELSE c[i]]
    ELSE Append(c, [type |-> ty, rules |-> rules])

RECURSIVE CompileFrom(_, _, _)
CompileFrom(c, types, i) ==
    IF i > Len(types) THEN c
    ELSE CompileFrom(IF InPatterns(types[i]) THEN DictSet(c, types[i], PATTERNS(types[i])) ELSE c,
                     types, i + 1)

compile_patterns(types) == CompileFrom(<<>>, types, 1)

\* an overlap test that only recognises identical spans
spans_overlap_exact(span1, span2) == span1.start = span2.start /\ span1.end = span2.end

spans_overlap(span1, span2) == ~(span1.end <= span2.start \/ span2.end <= span1.start)

PIIMatch(ty, t, h, conf) ==
    [pii_type |-> ty, value |-> Slice(t, h.start, h.end), start |-> h.start, end |-> h.end,
     confidence |-> conf]

\* the body of the innermost loop of detect: acc is [matches, seen_spans]
AcceptHit(acc, ty, t, h, conf) ==
    IF ~\E seen \in acc.seen_spans : spans_overlap(h, seen)
    THEN [matches |-> Append(acc.matches, PIIMatch(ty, t, h, conf)),
          seen_spans |-> acc.seen_spans \cup {h}]
    ELSE acc

RECURSIVE HitsLoop(_, _, _, _, _, _)
HitsLoop(acc, ty, t, hits, conf, i) ==
    IF i > Len(hits) THEN acc
    ELSE HitsLoop(AcceptHit(acc, ty, t, hits[i], conf), ty, t, hits, conf, i + 1)

RECURSIVE RulesLoop(_, _, _, _, _)
RulesLoop(acc, ty, t, rules, j) ==
    IF j > Len(rules) THEN acc
    ELSE RulesLoop(HitsLoop(acc, ty, t, finditer(rules[j].pat, t), rules[j].conf, 1),
                   ty, t, rules, j + 1)

\* the categories scanned in reverse registration order
RECURSIVE TypesLoop_reversed(_, _, _, _)
TypesLoop_reversed(acc, c, t, i) ==
    IF i > Len(c) THEN acc
    ELSE TypesLoop_reversed(RulesLoop(acc, c[Len(c) + 1 - i].type, t, c[Len(c) + 1 - i].rules, 1),
                            c, t, i + 1)

RECURSIVE TypesLoop(_, _, _, _)
TypesLoop(acc, c, t, i) ==
    IF i > Len(c) THEN acc
    ELSE TypesLoop(RulesLoop(acc, c[i].type, t, c[i].rules, 1), c, t, i + 1)

\* list.sort(key=start): stable
RECURSIVE InsertAsc(_, _)
InsertAsc(s, m) ==
    IF s = <<>> THEN <<m>>
    ELSE IF s[Len(s)].start <= m.start THEN Append(s, m)
         ELSE Append(InsertAsc(SubSeq(s, 1, Len(s) - 1), m), s[Len(s)])

RECURSIVE SortFrom(_, _, _)
SortFrom(done, s, i) == IF i > Len(s) THEN done ELSE SortFrom(InsertAsc(done, s[i]), s, i + 1)

SortByStart(s) == SortFrom(<<>>, s, 1)

RegexDetect(c, t) == SortByStart(TypesLoop([matches |-> <<>>, seen_spans |-> {}], c, t, 1).matches)


\* RegexDetector.add_custom_pattern
CustomPool ==
    { <<Cls(Digit, 0, 99)>>,                 \* 1*   (matches the empty string)
      <<Cls(Sep, 1, 1)>> }                   \* -

CustomRules(c) == IF HasType(c, CUSTOM)
                  THEN (CHOOSE e \in {c[i] : i \in 1..Len(c)} : e.type = CUSTOM).rules
                  ELSE <<>>

add_custom_pattern(c, pattern, confidence) ==
    LET c1 == IF ~HasType(c, CUSTOM) THEN DictSet(c, CUSTOM, <<>>) ELSE c
    IN  DictSet(c1, CUSTOM, Append(CustomRules(c1), [pat |-> pattern, conf |-> confidence]))

\* ---------------------------------------------------------------- FakeDataGenerator
RngMod == 2        \* distinct states of the random source

RECURSIVE CodeSum(_)
CodeSum(s) == IF s = <<>> THEN 0
              ELSE (CASE Head(s) = "1" -> 1 [] Head(s) = "a" -> 2 [] OTHER -> 3) + 2 * CodeSum(Tail(s))

\* int(hashlib.md5(original.encode()).hexdigest()[:8], 16), as a seed of the source
SeedOf(original) == (CodeSum(original) + Len(original)) % RngMod

NextRng(r) == (r + 1) % RngMod

FakeDigit(r) == IF r % 2 = 0 THEN "7" ELSE "9"

Contains(s, c) == \E i \in 1..Len(s) : s[i] = c

generate_ssn(original, r) ==
    IF Contains(original, "-") THEN <<FakeDigit(r), "-", FakeDigit(r + 1)>>
    ELSE <<FakeDigit(r), FakeDigit(r + 1)>>

generate_credit_card(original, r) ==
    IF Contains(original, "-") THEN <<FakeDigit(r), FakeDigit(r + 1), "-", FakeDigit(r), "7">>
    ELSE <<FakeDigit(r), FakeDigit(r + 1), FakeDigit(r), "7">>

generate_bank_account(original, r) ==
    IF Len(original) >= 2 /\ original[1] \in Alpha /\ original[2] \in Alpha
    THEN <<"G", "B", FakeDigit(r)>>
    ELSE [i \in 1..Len(original) |-> FakeDigit(r + i)]

generate_name(original, r) == IF r % 2 = 0 THEN <<"A", "n", "n">> ELSE <<"B", "o">>

generate_generic(original, r) == <<"#", FakeDigit(r)>>

\* _generate_by_type: the dispatch on the category, drawing from the source at state r
generate_by_type(pii_type, original, r) ==
    CASE pii_type = SSN -> generate_ssn(original, r)
      [] pii_type = CREDIT_CARD -> generate_credit_card(original, r)
      [] pii_type = BANK_ACCOUNT -> generate_bank_account(original, r)
      [] pii_type = NAME -> generate_name(original, r)
      [] OTHER -> generate_generic(original, r)

InCache(ch, original) == original \in DOMAIN ch

\* generate without the cache lookup: every call draws again
generate_no_lookup(pii_type, original, ch, r, cons) ==
    LET r0 == IF cons THEN SeedOf(original) ELSE r
        fake_value == generate_by_type(pii_type, original, r0)
    IN  [value |-> fake_value,
         cache |-> IF cons THEN (original :> fake_value) @@ ch ELSE ch,
         rng |-> NextRng(r0)]

\* generate storing a fresh value in a cache that keeps no other entry
generate_evicting(pii_type, original, ch, r, cons) ==
    IF cons /\ InCache(ch, original)
    THEN [value |-> ch[original], cache |-> ch, rng |-> r]
    ELSE LET r0 == IF cons THEN SeedOf(original) ELSE r
             fake_value == generate_by_type(pii_type, original, r0)
         IN  [value |-> fake_value,
              cache |-> IF cons THEN (original :> fake_value) ELSE ch,
              rng |-> NextRng(r0)]

\* generate: the value returned with the cache and the source as it leaves them
generate(pii_type, original, ch, r, cons) ==
    IF cons /\ InCache(ch, original)
    THEN [value |-> ch[original], cache |-> ch, rng |-> r]
    ELSE LET r0 == IF cons THEN SeedOf(original) ELSE r
             fake_value == generate_by_type(pii_type, original, r0)
         IN  [value |-> fake_value,
              cache |-> IF cons THEN (original :> fake_value) @@ ch ELSE ch,
              rng |-> NextRng(r0)]

EmptyCache == [x \in {} |-> <<>>]

\* history of generate calls
NoGen == [called |-> FALSE, pii_type |-> "", original |-> <<>>, value |-> <<>>, repeat |-> FALSE]
NoteFirst(fr, pii_type, original, value) ==
    IF original \in DOMAIN fr THEN fr
    ELSE (original :> [value |-> value, pii_type |-> pii_type]) @@ fr


\* ---------------------------------------------------------------- the external backend
\* llm_guard.detect(text): a list of matches of the Match shape, or a failure
GuardTypes == {NAME}
GuardErrors == {"BackendError", "TimeoutError"}

GuardMatches(t) ==
    { m \in { [pii_type |-> ty, value |-> Slice(t, s, e), start |-> s, end |-> e,
               confidence |-> 90] : ty \in GuardTypes, s \in 0..Len(t), e \in 0..Len(t) } :
        m.start < m.end }

RECURSIVE SeqsUpTo(_, _)
SeqsUpTo(S, n) == IF n = 0 THEN {<<>>}
                  ELSE LET R == SeqsUpTo(S, n - 1)
                       IN  R \cup {Append(r, x) : r \in {q \in R : Len(q) = n - 1}, x \in S}

NoGuard == [called |-> FALSE, failed |-> FALSE, error |-> "", matches |-> <<>>]

\* ---------------------------------------------------------------- PrivacyProtector
NoReturn == [kind |-> "none"]

\* the merge loop of _detect_all: existing_spans is computed once, before the loop
RECURSIVE MergeLoop(_, _, _, _)
MergeLoop(ms, existing_spans, guard_matches, i) ==
    IF i > Len(guard_matches) THEN ms
    ELSE LET g == guard_matches[i]
         IN  MergeLoop(IF <<g.start, g.end>> \notin existing_spans THEN Append(ms, g) ELSE ms,
                       existing_spans, guard_matches, i + 1)

merge_guard(ms, guard_matches) ==
    MergeLoop(ms, {<<ms[i].start, ms[i].end>> : i \in 1..Len(ms)}, guard_matches, 1)

\* list.sort(key=start, reverse=True): stable
RECURSIVE InsertDesc(_, _)
InsertDesc(s, m) ==
    IF s = <<>> THEN <<m>>
    ELSE IF s[Len(s)].start >= m.start THEN Append(s, m)
         ELSE Append(InsertDesc(SubSeq(s, 1, Len(s) - 1), m), s[Len(s)])

RECURSIVE SortDescFrom(_, _, _)
SortDescFrom(done, s, i) ==
    IF i > Len(s) THEN done ELSE SortDescFrom(InsertDesc(done, s[i]), s, i + 1)

SortByStartReverse(s) == SortDescFrom(<<>>, s, 1)

\* the recorded list handed back in processing order
Reversed_not(s) == s

Reversed(s) == [i \in 1..Len(s) |-> s[Len(s) + 1 - i]]

\* a splice that cuts one character early
Splice_early(t, start, end, fake_value) ==
    Slice(t, 0, start - 1) \o fake_value \o (IF end >= Len(t) THEN <<>> ELSE SubSeq(t, end + 1, Len(t)))

\* result_text[:start] + fake_value + result_text[end:]
Splice(t, start, end, fake_value) ==
    Slice(t, 0, start) \o fake_value \o (IF end >= Len(t) THEN <<>> ELSE SubSeq(t, end + 1, Len(t)))

ReportEntry(m, fake_value) ==
    [type |-> m.pii_type, original |-> m.value, replacement |-> fake_value,
     position |-> m.start, confidence |-> m.confidence]

ConfigUnchanged == UNCHANGED <<config_enabled, enabled_types, llm_guard, consistent>>

CountsUnchanged == UNCHANGED <<ncalls, ngens>>

HistoryUnchanged == UNCHANGED <<local, merged>>

\* a public call enters with fresh locals
Enter(o, t) ==
    /\ pc = "idle"
    /\ ncalls < MaxCalls
    /\ ncalls' = ncalls + 1
    /\ ngens' = ngens
    /\ op' = o
    /\ text' = t
    /\ matches' = <<>>
    /\ result_text' = <<>>
    /\ replacements' = <<>>
    /\ idx' = 0
    /\ guard_out' = NoGuard
    /\ ret' = NoReturn
    /\ cache0' = cache
    /\ last_gen' = NoGen
    /\ local' = <<>>
    /\ merged' = <<>>

\* PrivacyProtector.anonymize_with_report(text) is called
AnonymizeWithReport ==
    \E t \in Strings(MaxText) :
        /\ Enter("anonymize_with_report", t)
        /\ pc' = "detect_all"
        /\ UNCHANGED <<compiled, cache, rng, first_ret>>
        /\ ConfigUnchanged

\* PrivacyProtector.anonymize(text) is called
Anonymize ==
    \E t \in Strings(MaxText) :
        /\ Enter("anonymize", t)
        /\ pc' = "detect_all"
        /\ UNCHANGED <<compiled, cache, rng, first_ret>>
        /\ ConfigUnchanged

\* PrivacyProtector.detect(text) is called
Detect ==
    \E t \in Strings(MaxText) :
        /\ Enter("detect", t)
        /\ pc' = "detect_all"
        /\ UNCHANGED <<compiled, cache, rng, first_ret>>
        /\ ConfigUnchanged

\* _detect_all without a backend, or with one that answers
DetectAllReturns ==
    /\ pc = "detect_all"
    /\ \E g \in IF llm_guard THEN SeqsUpTo(GuardMatches(text), MaxGuard) ELSE {<<>>} :
        LET local_matches == RegexDetect(compiled, text)
            all == IF llm_guard THEN merge_guard(local_matches, g) ELSE local_matches
        IN  /\ guard_out' = [called |-> llm_guard, failed |-> FALSE, error |-> "", matches |-> g]
            /\ matches' = all
            /\ local' = local_matches
            /\ merged' = all
            /\ IF op = "detect"
               THEN /\ ret' = [kind |-> "matches", matches |-> all]
                    /\ pc' = "done"
               ELSE /\ ret' = ret
                    /\ pc' = "sort"
    /\ UNCHANGED <<compiled, cache, rng, first_ret, op, text, result_text, replacements, idx,
                   cache0, last_gen>>
    /\ CountsUnchanged
    /\ ConfigUnchanged

\* a _detect_all that swallows the backend's error and goes on with the local matches
DetectAllRaises_fallback ==
    /\ pc = "detect_all"
    /\ llm_guard
    /\ \E e \in GuardErrors :
        guard_out' = [called |-> TRUE, failed |-> TRUE, error |-> e, matches |-> <<>>]
    /\ matches' = RegexDetect(compiled, text)
    /\ local' = RegexDetect(compiled, text)
    /\ merged' = RegexDetect(compiled, text)
    /\ IF op = "detect"
       THEN /\ ret' = [kind |-> "matches", matches |-> RegexDetect(compiled, text)]
            /\ pc' = "done"
       ELSE /\ ret' = ret
            /\ pc' = "sort"
    /\ UNCHANGED <<compiled, cache, rng, first_ret, op, text, result_text, replacements, idx,
                   cache0, last_gen>>
    /\ CountsUnchanged
    /\ ConfigUnchanged

\* _detect_all with a backend whose detect raises: nothing catches the error
DetectAllRaises ==
    /\ pc = "detect_all"
    /\ llm_guard
    /\ \E e \in GuardErrors :
        /\ guard_out' = [called |-> TRUE, failed |-> TRUE, error |-> e, matches |-> <<>>]
        /\ ret' = [kind |-> "raise", error |-> e]
    /\ matches' = RegexDetect(compiled, text)
    /\ local' = RegexDetect(compiled, text)
    /\ pc' = "done"
    /\ UNCHANGED <<compiled, cache, rng, first_ret, op, text, result_text, replacements, idx,
                   cache0, last_gen, merged>>
    /\ CountsUnchanged
    /\ ConfigUnchanged

\* matches.sort(key=start, reverse=True); result_text = text; replacements = []
SortMatches ==
    /\ pc = "sort"
    /\ matches' = SortByStartReverse(matches)
    /\ result_text' = text
    /\ replacements' = <<>>
    /\ idx' = 0
    /\ pc' = "replace"
    /\ UNCHANGED <<compiled, cache, rng, first_ret, op, text, guard_out, ret, cache0, last_gen>>
    /\ CountsUnchanged
    /\ HistoryUnchanged
    /\ ConfigUnchanged

\* one iteration of the replacement loop
ReplaceOne ==
    /\ pc = "replace"
    /\ idx < Len(matches)
    /\ LET match == matches[idx + 1]
           g == generate(match.pii_type, match.value, cache, rng, consistent)
       IN  /\ cache' = g.cache
           /\ rng' = g.rng
           /\ result_text' = Splice(result_text, match.start, match.end, g.value)
           /\ replacements' = Append(replacements, ReportEntry(match, g.value))
           /\ first_ret' = NoteFirst(first_ret, match.pii_type, match.value, g.value)
           /\ last_gen' = [called |-> TRUE, pii_type |-> match.pii_type, original |-> match.value,
                           value |-> g.value, repeat |-> match.value \in DOMAIN first_ret]
    /\ idx' = idx + 1
    /\ UNCHANGED <<compiled, pc, op, text, matches, guard_out, ret, cache0>>
    /\ CountsUnchanged
    /\ HistoryUnchanged
    /\ ConfigUnchanged

\* the loop is over: the result is returned
ReturnResult ==
    /\ pc = "replace"
    /\ idx = Len(matches)
    /\ ret' = IF op = "anonymize"
              THEN [kind |-> "text", anonymized_text |-> result_text]
              ELSE [kind |-> "report", original_text |-> text, anonymized_text |-> result_text,
                    replacements |-> Reversed(replacements), pii_found |-> Len(matches)]
    /\ pc' = "done"
    /\ UNCHANGED <<compiled, cache, rng, first_ret, op, text, matches, result_text, replacements,
                   idx, guard_out, cache0, last_gen>>
    /\ CountsUnchanged
    /\ HistoryUnchanged
    /\ ConfigUnchanged

\* PrivacyProtector.add_custom_pattern / RegexDetector.add_custom_pattern
AddCustomPattern ==
    /\ pc = "idle"
    /\ Len(CustomRules(compiled)) < MaxCustom
    /\ \E p \in CustomPool : compiled' = add_custom_pattern(compiled, p, 80)
    /\ UNCHANGED <<cache, rng, first_ret, pc, op, text, matches, result_text, replacements, idx,
                   guard_out, ret, cache0, last_gen>>
    /\ CountsUnchanged
    /\ HistoryUnchanged
    /\ ConfigUnchanged

\* RegexDetector.detect(text), called on the detector itself
RegexDetectorDetect ==
    /\ pc = "idle"
    /\ \E t \in Strings(MaxLen) :
        /\ text' = t
        /\ ret' = [kind |-> "matches", matches |-> RegexDetect(compiled, t)]
    /\ op' = "regex_detect"
    /\ pc' = "done"
    /\ UNCHANGED <<compiled, cache, rng, first_ret, matches, result_text, replacements, idx,
                   guard_out, cache0, last_gen>>
    /\ CountsUnchanged
    /\ HistoryUnchanged
    /\ ConfigUnchanged

GenTypes == {SSN, CUSTOM}
GenOriginals == {<<"1">>, <<"-">>}

\* FakeDataGenerator.generate(pii_type, original), called on the generator itself
Generate ==
    /\ pc = "idle"
    /\ ngens < MaxGens
    /\ ngens' = ngens + 1
    /\ ncalls' = ncalls
    /\ HistoryUnchanged
    /\ \E ty \in GenTypes, original \in GenOriginals :
        LET g == generate(ty, original, cache, rng, consistent)
        IN  /\ cache' = g.cache
            /\ rng' = g.rng
            /\ ret' = [kind |-> "value", value |-> g.value]
            /\ first_ret' = NoteFirst(first_ret, ty, original, g.value)
            /\ last_gen' = [called |-> TRUE, pii_type |-> ty, original |-> original,
                            value |-> g.value, repeat |-> original \in DOMAIN first_ret]
    /\ op' = "generate"
    /\ cache0' = cache
    /\ pc' = "done"
    /\ UNCHANGED <<compiled, text, matches, result_text, replacements, idx, guard_out>>
    /\ ConfigUnchanged

\* FakeDataGenerator.clear_cache()
ClearCache ==
    /\ pc = "idle"
    /\ cache # EmptyCache
    /\ cache' = EmptyCache
    /\ first_ret' = EmptyCache
    /\ UNCHANGED <<compiled, rng, pc, op, text, matches, result_text, replacements, idx,
                   guard_out, ret, cache0, last_gen>>
    /\ CountsUnchanged
    /\ HistoryUnchanged
    /\ ConfigUnchanged

\* the call is over: the caller has its result and the call's locals are gone
Return ==
    /\ pc = "done"
    /\ pc' = "idle"
    /\ op' = "init"
    /\ text' = <<>>
    /\ matches' = <<>>
    /\ result_text' = <<>>
    /\ replacements' = <<>>
    /\ idx' = 0
    /\ guard_out' = NoGuard
    /\ ret' = NoReturn
    /\ cache0' = EmptyCache
    /\ last_gen' = NoGen
    /\ local' = <<>>
    /\ merged' = <<>>
    /\ UNCHANGED <<compiled, cache, rng, first_ret>>
    /\ CountsUnchanged
    /\ ConfigUnchanged

\* ---------------------------------------------------------------- specifications
\* the enabled_types argument: None, or a list of at most two categories
EnabledArgs ==
    {NoneArg} \cup {ListArg(l) : l \in SeqsUpTo({SSN, CREDIT_CARD, BANK_ACCOUNT, NAME}, 2)}

InitLocals ==
    /\ cache = EmptyCache
    /\ pc = "idle"
    /\ op = "init"
    /\ text = <<>>
    /\ matches = <<>>
    /\ result_text = <<>>
    /\ replacements = <<>>
    /\ idx = 0
    /\ guard_out = NoGuard
    /\ ret = NoReturn
    /\ cache0 = EmptyCache
    /\ first_ret = EmptyCache
    /\ last_gen = NoGen
    /\ local = <<>>
    /\ merged = <<>>
    /\ ncalls = 0
    /\ ngens = 0

\* PrivacyProtector.__init__
Init ==
    /\ config_enabled \in {NoneArg}
    /\ enabled_types = EnabledOrAll(config_enabled)
    /\ compiled = compile_patterns(enabled_types)
    /\ llm_guard \in BOOLEAN
    /\ consistent \in BOOLEAN
    /\ rng \in 0..(RngMod - 1)
    /\ InitLocals

Next ==
    \/ AnonymizeWithReport
    \/ Anonymize
    \/ Detect
    \/ DetectAllReturns
    \/ DetectAllRaises
    \/ SortMatches
    \/ ReplaceOne
    \/ ReturnResult
    \/ AddCustomPattern
    \/ Generate
    \/ ClearCache
    \/ Return

Spec == Init /\ [][Next]_vars

\* RegexDetector.__init__, the detector on its own
InitDetector ==
    /\ config_enabled \in EnabledArgs
    /\ enabled_types = EnabledOrAll(config_enabled)
    /\ compiled = compile_patterns(enabled_types)
    /\ llm_guard = FALSE
    /\ consistent = TRUE
    /\ rng = 0
    /\ InitLocals

NextDetector ==
    \/ AddCustomPattern
    \/ RegexDetectorDetect
    \/ Return

SpecDetector == InitDetector /\ [][NextDetector]_vars

\* ================================================================ properties
\* two half-open spans share a character position
SharePosition(a, b) ==
    \E q \in 0..Len(text) : a.start <= q /\ q < a.end /\ b.start <= q /\ q < b.end

\* the intervals intersect, an empty one counting as its position
Intersect(a, b) == a.start < b.end /\ b.start < a.end

\* RegexDetector.detect has returned ret.matches for text
DetectorReturned == pc = "done" /\ op = "regex_detect"

\* the raw hits of every rule of the catalog on text, with their place in the scan
RuleHits(i, j) ==
    LET hs == finditer(compiled[i].rules[j].pat, text)
    IN  { [ci |-> i, ri |-> j, k |-> k, pii_type |-> compiled[i].type,
           start |-> hs[k].start, end |-> hs[k].end] : k \in 1..Len(hs) }

RawHits ==
    UNION { UNION { RuleHits(i, j) : j \in 1..Len(compiled[i].rules) } : i \in 1..Len(compiled) }

ScannedBefore(g, h) ==
    \/ g.ci < h.ci
    \/ g.ci = h.ci /\ g.ri < h.ri
    \/ g.ci = h.ci /\ g.ri = h.ri /\ g.k < h.k

\* the returned list holds a match of h's category on h's span
Kept(h) ==
    \E n \in 1..Len(ret.matches) :
        /\ ret.matches[n].pii_type = h.pii_type
        /\ ret.matches[n].start = h.start
        /\ ret.matches[n].end = h.end

HasCustomRule == Len(CustomRules(compiled)) > 0

\* C1: the list returned by RegexDetector.detect holds no two distinct matches
\* whose half-open spans share a position; spans that touch are allowed.
C1_Disjoint ==
    DetectorReturned =>
        \A m \in 1..Len(ret.matches), n \in 1..Len(ret.matches) :
            m # n => ~SharePosition(ret.matches[m], ret.matches[n])

\* C1 witness: a custom rule is present, a raw hit was dropped for overlapping,
\* and two returned matches touch at a boundary
C1_Witness ==
    /\ DetectorReturned
    /\ HasCustomRule
    /\ \E h \in RawHits : ~Kept(h)
    /\ \E m \in 1..Len(ret.matches), n \in 1..Len(ret.matches) :
        /\ ret.matches[m].start < ret.matches[m].end
        /\ ret.matches[n].start < ret.matches[n].end
        /\ ret.matches[m].end = ret.matches[n].start

\* C2 as claimed: of two overlapping raw hits from two categories, the one from
\* the earlier-registered category is kept and the other one is dropped.
C2_EarlierAlwaysWins ==
    DetectorReturned =>
        \A h1 \in RawHits, h2 \in RawHits :
            (h1.ci < h2.ci /\ SharePosition(h1, h2)) => (Kept(h1) /\ ~Kept(h2))

\* C2 amended: of two overlapping raw hits from two categories, the later
\* category's hit is dropped whenever the earlier category's hit is kept, and
\* the earlier category's hit is dropped only when a hit scanned before it was
\* kept on a span that intersects it.
C2_FirstAcceptedWins ==
    DetectorReturned =>
        \A h1 \in RawHits, h2 \in RawHits :
            (h1.ci < h2.ci /\ SharePosition(h1, h2)) =>
                /\ Kept(h1) => ~Kept(h2)
                /\ ~Kept(h1) => \E h0 \in RawHits :
                                    ScannedBefore(h0, h1) /\ Kept(h0) /\ Intersect(h0, h1)

\* C2 witness: overlapping hits of two categories, the earlier kept, the later dropped
C2_Witness ==
    /\ DetectorReturned
    /\ \E h1 \in RawHits, h2 \in RawHits :
        h1.ci < h2.ci /\ SharePosition(h1, h2) /\ Kept(h1) /\ ~Kept(h2)

\* C7: with an explicit list of categories and no custom rule, every match
\* returned by detect has a category of that list.
C7_OnlyEnabledTypes ==
    (DetectorReturned /\ ~config_enabled.none /\ ~HasCustomRule) =>
        \A n \in 1..Len(ret.matches) :
            \E e \in 1..Len(config_enabled.list) :
                config_enabled.list[e] = ret.matches[n].pii_type

\* C10: every match returned by detect has 0 <= start < end <= len(text) and
\* value == text[start:end].
C10_MatchShape ==
    DetectorReturned =>
        \A n \in 1..Len(ret.matches) :
            LET m == ret.matches[n]
            IN  /\ 0 <= m.start
                /\ m.start < m.end
                /\ m.end <= Len(text)
                /\ m.value = [q \in 1..(m.end - m.start) |-> text[m.start + q]]


\* C11: the list returned by RegexDetector.detect is sorted by start ascending
\* and no two returned matches have the same start.
C11_SortedDistinctStarts ==
    DetectorReturned =>
        \A m \in 1..Len(ret.matches), n \in 1..Len(ret.matches) :
            m < n => ret.matches[m].start < ret.matches[n].start


\* C3: with consistency on, every generate call for an original returns what the
\* first call for that original returned since the cache was last cleared,
\* whatever the categories of the two calls.
C3_SameAsFirst ==
    (consistent /\ last_gen.called) =>
        /\ last_gen.original \in DOMAIN first_ret
        /\ last_gen.value = first_ret[last_gen.original].value

\* C3 witness: a later call for an original first seen under another category,
\* after calls for other originals, where a fresh draw would have differed
C3_Witness ==
    /\ consistent
    /\ last_gen.called
    /\ last_gen.repeat
    /\ first_ret[last_gen.original].pii_type # last_gen.pii_type
    /\ Cardinality(DOMAIN first_ret) >= 2
    /\ generate_by_type(last_gen.pii_type, last_gen.original, SeedOf(last_gen.original))
           # last_gen.value

\* anonymize_with_report has returned its report
ReportReturned == pc = "done" /\ op = "anonymize_with_report" /\ ret.kind = "report"

\* the text with the spans of ms (ascending) replaced by the replacements of reps
RECURSIVE RebuiltFrom(_, _, _, _, _)
RebuiltFrom(t, ms, reps, i, pos) ==
    IF i > Len(ms) THEN Slice(t, pos, Len(t))
    ELSE Slice(t, pos, ms[i].start) \o reps[i].replacement
             \o RebuiltFrom(t, ms, reps, i + 1, ms[i].end)

\* C4: with the match set of the pattern detector, anonymized_text is the text
\* with each matched span replaced by its replacement and all else unchanged.
C4_SpliceExact ==
    (ReportReturned /\ ~llm_guard) =>
        ret.anonymized_text = RebuiltFrom(text, Reversed(matches), ret.replacements, 1, 0)

\* C5: the report's replacements are in ascending position order, one entry per
\* match of the merged set, each with its match's start and value.
C5_ReportOrder ==
    ReportReturned =>
        /\ Len(ret.replacements) = Len(merged)
        /\ \A i \in 1..(Len(ret.replacements) - 1) :
               ret.replacements[i].position <= ret.replacements[i + 1].position
        /\ \A s \in 0..Len(text), v \in {merged[n].value : n \in 1..Len(merged)} :
               Cardinality({i \in 1..Len(ret.replacements) :
                               ret.replacements[i].position = s /\ ret.replacements[i].original = v})
                   = Cardinality({n \in 1..Len(merged) :
                                     merged[n].start = s /\ merged[n].value = v})

\* C5 witness: a backend match merged in behind a local match that starts after it
C5_Witness ==
    /\ ReportReturned
    /\ llm_guard
    /\ Len(local) >= 1
    /\ Len(merged) > Len(local)
    /\ merged[Len(merged)].start < merged[1].start

\* the merge as claimed: a backend match is skipped when its span is the span
\* of a match present in the merged set at that moment
RECURSIVE MergeSkippingPresent(_, _, _)
MergeSkippingPresent(ms, g, i) ==
    IF i > Len(g) THEN ms
    ELSE MergeSkippingPresent(
             IF \E n \in 1..Len(ms) : ms[n].start = g[i].start /\ ms[n].end = g[i].end
             THEN ms ELSE Append(ms, g[i]),
             g, i + 1)

\* C6: merging keeps every local match and adds the backend's matches one by
\* one, skipping those whose span equals the span of a match already present.
C6_MergeSkipsPresent ==
    (guard_out.called /\ ~guard_out.failed /\ (pc = "sort" \/ (pc = "done" /\ op = "detect"))) =>
        matches = MergeSkippingPresent(local, guard_out.matches, 1)

\* C8: when the backend's detect fails the call raises that error, returns no
\* report or match list, and makes no substitution.
C8_BackendErrorPropagates ==
    (pc = "done" /\ guard_out.failed) =>
        /\ ret = [kind |-> "raise", error |-> guard_out.error]
        /\ cache = cache0
        /\ ~last_gen.called
        /\ replacements = <<>>
        /\ result_text = <<>>

\* C8 witness: the backend fails in anonymize_with_report on a text with local
\* matches, the cache holding entries from before
C8_Witness ==
    /\ pc = "done"
    /\ guard_out.failed
    /\ op = "anonymize_with_report"
    /\ cache0 # EmptyCache
    /\ Len(local) >= 1

\* the replacement loop is about to process matches[idx + 1]
Processing == pc = "replace" /\ idx < Len(matches)

\* C9 as claimed: whenever a match is processed, the working text still holds
\* its value at its span.
C9_NeverShifted ==
    Processing =>
        Slice(result_text, matches[idx + 1].start, matches[idx + 1].end) = matches[idx + 1].value

\* the match about to be processed ends at or before every match already processed
BelowProcessed == \A j \in 1..idx : matches[idx + 1].end <= matches[j].start

\* C9 amended: a match that ends at or before the start of every match already
\* processed still finds the original text, its value, at its span.
C9_UnshiftedBelowProcessed ==
    (Processing /\ BelowProcessed) =>
        /\ Slice(result_text, matches[idx + 1].start, matches[idx + 1].end)
               = Slice(text, matches[idx + 1].start, matches[idx + 1].end)
        /\ Slice(result_text, matches[idx + 1].start, matches[idx + 1].end)
               = matches[idx + 1].value

\* C9 witness: with a backend match in the set, a non-empty match is processed
\* after a splice that changed the length of the text
C9_Witness ==
    /\ Processing
    /\ BelowProcessed
    /\ idx >= 1
    /\ Len(guard_out.matches) >= 1
    /\ Len(matches) > Len(local)
    /\ matches[idx + 1].start < matches[idx + 1].end
    /\ Len(result_text) # Len(text)

\* every entry of the cache is still there, with its value, after the step
EntriesKept == \A k \in DOMAIN cache : k \in DOMAIN cache' /\ cache'[k] = cache[k]

\* C12: a cache entry once stored is neither removed nor overwritten by any
\* step but clear_cache, clear_cache leaves the cache empty, and with
\* consistency off no step adds an entry.
C12_ClearedOnlyOnReset ==
    [][ /\ ClearCache \/ EntriesKept
        /\ ClearCache => cache' = EmptyCache
        /\ ~consistent => DOMAIN cache' \subseteq DOMAIN cache ]_vars

\* C12 witness: a protector call that entered with a stored entry has generated
\* for that original again and for a new one, and the call's cache holds both
C12_Witness ==
    /\ consistent
    /\ pc = "done"
    /\ op \in {"anonymize", "anonymize_with_report"}
    /\ cache0 # EmptyCache
    /\ \E n \in 1..Len(merged) : merged[n].value \in DOMAIN cache0
    /\ DOMAIN cache0 # DOMAIN cache
    /\ \A k \in DOMAIN cache0 : k \in DOMAIN cache /\ cache[k] = cache0[k]

====
